---- MODULE Spec2Model ----
(***************************************************************************)
(* Model of the RPA workflow executor (services/rpaExecutor.js), the       *)
(* domain guard and workflow validation of services/rpaPlanner.js and the  *)
(* zod schemas of rpaAgent.js.                                             *)
(*                                                                         *)
(* One workflow run is modelled.  Two tasks exist once executeWorkflow has *)
(* been called: the "main" task (the body of executeWorkflow that awaits   *)
(* Promise.race and then runs catch/finally) and the "run" task (the async *)
(* closure run()).  Every await of the run task is a position of runPc;    *)
(* the code between two awaits is executed atomically, as the JavaScript   *)
(* event loop does.  The deadline timer may fire at any moment while the   *)
(* main task is still awaiting the race.  Page operations on a closed      *)
(* browser reject.  The page's console and pageerror events, which only    *)
(* append further log entries, are left out.                               *)
(*                                                                         *)
(* The pure functions of the domain guard (isUrlAllowed), of selector      *)
(* healing and DOM diffing (selfHealing.js), of the snapshots of a         *)
(* self-healing run (routes/flows.js) and of the selector map (flows.js)   *)
(* are each called on their own in a specification whose initial states    *)
(* are the calls and whose action lets the call return.                    *)
(***************************************************************************)
EXTENDS Integers, Sequences, FiniteSets, TLC

(* ------------------------------ bounds -------------------------------- *)
MaxSteps == 2
MaxAttempts == 4
MaxLabels == 4
MaxFallbacks == 2
MaxEntries == 2
MaxElements == 2
MaxEvents == 3

(* ------------------------- program constants -------------------------- *)
MinStepRetries == 0
MaxStepRetries == 3
DefaultMaxExecutionMs == 120000
MinMaxExecutionMs == 5000

Undefined == "<undefined>"

(* ------------------------------ URLs ---------------------------------- *)
(* URL texts used by the model and what `new URL(text).hostname` yields   *)
(* for them, as a sequence of dot-separated labels.                       *)
BlankUrl == "about:blank"
OkUrl == "https://www.ex.com/"
EvilUrl == "https://ex.com.evil.net/"
BadUrl == "not a url"
DefaultUrl == "https://example.com"

UrlParses(text) == text \in {BlankUrl, OkUrl, EvilUrl, DefaultUrl}

UrlHostname(text) ==
  CASE text = OkUrl -> <<"www", "ex", "com">>
    [] text = EvilUrl -> <<"ex", "com", "evil", "net">>
    [] text = DefaultUrl -> <<"example", "com">>
    [] OTHER -> <<>>

(* String.prototype.toLowerCase on a label; the URL parser lowercases the *)
(* host of an http(s) URL in the same way                                 *)
LowerLabel(label) == IF label = "WWW" THEN "www" ELSE label

LowerHost(host) == [i \in 1..Len(host) |-> LowerLabel(host[i])]

(* hostname.replace(/^www\./, '') on a label sequence *)
StripWww(host) ==
  IF Len(host) >= 2 /\ host[1] = "www" THEN Tail(host) ELSE host

(* Domain texts a caller may put in allowedDomains and the hostname that  *)
(* new URL('https://' + text.trim().toLowerCase()) yields for them.       *)
DomainHostname(text) ==
  CASE text = "www.ex.com" -> <<"www", "ex", "com">>
    [] text = "EX.com" -> <<"ex", "com">>
    [] text = "evil.net" -> <<"evil", "net">>
    [] OTHER -> <<>>

normalizeDomain(input) ==
  IF input = "" \/ input = Undefined
    THEN <<>>
    ELSE StripWww(DomainHostname(input))

SeqRange(s) == {s[i] : i \in 1..Len(s)}

(* Array.from(new Set(domains.map(normalizeDomain).filter(Boolean)))      *)
normalizeAllowedDomains(domains) ==
  {normalizeDomain(d) : d \in SeqRange(domains)} \ {<<>>}

(* mutant of EndsWithDomain: hostname.includes('.' + domain) *)
EndsWithDomainAnywhere(host, domain) ==
  \E from \in 2..Len(host) :
    /\ from + Len(domain) - 1 <= Len(host)
    /\ SubSeq(host, from, from + Len(domain) - 1) = domain

(* hostname.endsWith('.' + domain) *)
EndsWithDomain(host, domain) ==
  /\ Len(host) > Len(domain)
  /\ SubSeq(host, Len(host) - Len(domain) + 1, Len(host)) = domain

(* isUrlAllowed on a URL text of which `parses` tells whether new URL     *)
(* accepts it and `parsedHostname` is the hostname new URL then yields.   *)
(* The empty allow-list is answered before the URL is parsed.             *)
isUrlAllowedParsed(parses, parsedHostname, domains) ==
  IF domains = {}
    THEN TRUE
    ELSE IF ~parses
      THEN FALSE
      ELSE LET hostname == LowerHost(StripWww(parsedHostname))
           IN \E domain \in domains :
                hostname = domain \/ EndsWithDomain(hostname, domain)

isUrlAllowed(urlText, domains) ==
  isUrlAllowedParsed(UrlParses(urlText), UrlHostname(urlText), domains)

(* ----------------------- workflow validation -------------------------- *)
Actions == {"goto", "click", "type", "extract", "wait"}

(* A step as the planner hands it over.  selector and value are strings   *)
(* or Undefined; a selector containing 'search' triggers the search-click *)
(* path of the executor.                                                  *)
TypedText == "shoes"

Step(action, selector, value) ==
  [action |-> action, selector |-> selector, value |-> value]

(* rpaStepSchema: the action is one of the enum; selector, value and      *)
(* attribute are optional; a selector that is present has at least one    *)
(* character after trimming.  No field is required by the action.         *)
rpaStepSchema(step) ==
  /\ step.action \in Actions
  /\ (step.selector = Undefined \/ step.selector # "")

(* rpaWorkflowSchema: url is a valid URL, steps holds 1..120 valid steps  *)
MinWorkflowSteps == 1
MaxWorkflowSteps == 120

rpaWorkflowSchema(wf) ==
  /\ UrlParses(wf.url)
  /\ Len(wf.steps) >= MinWorkflowSteps
  /\ Len(wf.steps) <= MaxWorkflowSteps
  /\ \A i \in 1..Len(wf.steps) : rpaStepSchema(wf.steps[i])

(* sanitizeWorkflow: steps without an action are dropped, the URL is the  *)
(* candidate's or else the first goto's value or else the default, and a  *)
(* goto to that URL is put in front when the steps hold no goto at all.   *)
RECURSIVE DropEmptyActions(_)
DropEmptyActions(steps) ==
  IF steps = <<>>
    THEN <<>>
    ELSE IF Head(steps).action = ""
      THEN DropEmptyActions(Tail(steps))
      ELSE <<Head(steps)>> \o DropEmptyActions(Tail(steps))

sanitizeWorkflow(raw) ==
  LET normalizedSteps == DropEmptyActions(raw.steps)
      gotoValues == SelectSeq(normalizedSteps,
                              LAMBDA st : st.action = "goto" /\ st.value \notin {Undefined, ""})
      hasGoto == \E i \in 1..Len(normalizedSteps) : normalizedSteps[i].action = "goto"
      url == IF raw.url # ""
               THEN raw.url
               ELSE IF gotoValues # <<>> THEN gotoValues[1].value ELSE DefaultUrl
  IN [url |-> url,
      steps |-> IF hasGoto
                  THEN normalizedSteps
                  ELSE <<Step("goto", Undefined, url)>> \o normalizedSteps]

(* buildRuleBasedWorkflow for an instruction that names OkUrl and nothing *)
(* else: a goto followed by an extract of the title.                      *)
buildFallbackWorkflow ==
  [url |-> OkUrl,
   steps |-> <<Step("goto", Undefined, OkUrl), Step("extract", "title", Undefined)>>]

(* The step requires a field it does not carry (the checks of             *)
(* executeSingleStep: !value for goto, !selector for click/type/extract). *)
MissingRequiredField(step) ==
  \/ step.action = "goto" /\ step.value \in {Undefined, ""}
  \/ step.action \in {"click", "type", "extract"} /\ step.selector \in {Undefined, ""}

(* --------------------------- executor inputs -------------------------- *)
(* Steps a planner candidate may hold: well-formed steps, steps lacking   *)
(* the field their action needs, and steps the schema refuses.            *)
StepShapes ==
  { Step("goto", Undefined, OkUrl),
    Step("goto", Undefined, EvilUrl),
    Step("goto", Undefined, Undefined),
    Step("click", "#btn", Undefined),
    Step("click", "#search-btn", Undefined),
    Step("click", Undefined, Undefined),
    Step("type", "#btn", TypedText),
    Step("extract", "#btn", Undefined),
    Step("wait", Undefined, "2500"),
    Step("click", "", Undefined),
    Step("hover", "#btn", Undefined) }

RECURSIVE StepSeqs(_)
StepSeqs(n) ==
  IF n = 0
    THEN {<<>>}
    ELSE LET shorter == StepSeqs(n - 1)
         IN shorter \cup {Append(s, shape) : s \in {t \in shorter : Len(t) = n - 1},
                                              shape \in StepShapes}

CandidateUrls == {OkUrl, BadUrl, ""}

Candidates == {[url |-> u, steps |-> s] : u \in CandidateUrls, s \in StepSeqs(MaxSteps)}

AllowLists == {<<>>, <<"www.ex.com", "EX.com">>, <<"evil.net">>}

StepRetryValues == MinStepRetries..MaxStepRetries

MaxExecutionMsValues == {MinMaxExecutionMs, DefaultMaxExecutionMs}

(* ------------------------------ errors -------------------------------- *)
(* error.message: `Step ${n}: <text>` for the executor's own errors, the  *)
(* library's message for a failed page operation, and the timeout text.   *)
Err(text, n) == [text |-> text, n |-> n]
NoError == Err("", 0)

TimeoutError(ms) == Err("Execution timed out after <n>ms", ms)

PlaywrightError == Err("playwright operation failed", 0)
LaunchError == Err("browser launch failed", 0)

(* ------------------------------- state -------------------------------- *)
VARIABLES
  workflow,        \* planner candidate while pending, the validated workflow afterwards
  allowedDomains,  \* the allowedDomains argument
  stepRetries,     \* the stepRetries argument
  maxExecutionMs,  \* the maxExecutionMs argument
  mainPc,          \* executeWorkflow: pending, rejected, racing, closing, returned,
                   \*                  threw
  runPc,           \* run(): idle, launch, attempt, acting, autoextract, shot, backoff,
                   \*        fallback, done, rejected
  index,           \* the for loop's index, 1-based
  attempt,         \* the while loop's attempt
  status,          \* the status variable of executeWorkflow
  browser,         \* the browser variable: null, open, closed
  pageUrl,         \* page.url()
  logs,            \* the logs array (shared with the returned record)
  updates,         \* the status of every onUpdate({status, logs}) call, in order
  screenshots,     \* the screenshots array
  extractedData,   \* the extractedData array
  record,          \* the value executeWorkflow returned: status and error
  navStarted,      \* history: URLs page.goto was called with
  touched,         \* history: page URL at every element interaction started
  started,         \* history: executeSingleStep calls per step
  failed,          \* history: executeSingleStep throws per step
  lastError,       \* history: the error of the last throw per step
  deadlineAt,      \* history: runPc when the deadline fired, "" if it has not
  fallbackEval,    \* history: how the fallback page.evaluate settled, "" if not called
  onUpdate,        \* what the onUpdate callback does when called: see OnUpdateKinds
  call,            \* a call of one of the pure functions: its name and arguments
  result,          \* <<>> until the call returned, then <<its value>>
  job,             \* the route's job: its position, the length of the run's logs
                   \*   array and the result executeWorkflow resolved with
  inflight,        \* the onUpdate calls made so far, each with its position
  row              \* the rpa_workflows row of the job: status and execution_logs

vars == <<workflow, allowedDomains, stepRetries, maxExecutionMs, mainPc, runPc, index,
          attempt, status, browser, pageUrl, logs, updates, screenshots, extractedData,
          record, navStarted, touched, started, failed, lastError, deadlineAt,
          fallbackEval, onUpdate, call, result, job, inflight, row>>

inputVars == <<allowedDomains, stepRetries, maxExecutionMs, onUpdate>>
historyVars == <<navStarted, touched, started, failed, lastError, deadlineAt, fallbackEval>>
pureVars == <<call, result>>
persistVars == <<job, inflight, row>>

normalizedDomains == normalizeAllowedDomains(allowedDomains)

NoRecord == [status |-> "", error |-> NoError]

ZeroPerStep == [i \in 1..(MaxSteps + 1) |-> 0]

(* the workflow planWorkflowFromInstruction hands to the executor *)
PlannedWorkflow(raw) ==
  LET candidate == sanitizeWorkflow(raw)
  IN IF rpaWorkflowSchema(candidate) THEN candidate ELSE buildFallbackWorkflow

(* The runs explored: every candidate of at most MaxSteps steps with every *)
(* stepRetries for which the run makes at most MaxAttempts step attempts.  *)
WithinBounds(raw, retries) ==
  Len(PlannedWorkflow(raw).steps) * (retries + 1) <= MaxAttempts

(* what an onUpdate callback may do when it is called: return a promise   *)
(* that resolves (or a plain value), return a promise that rejects, or    *)
(* throw before it returns                                                *)
OnUpdateKinds == {"resolves", "rejects", "throws"}

(* no pure function is being called *)
NoCall == [fn |-> "none"]

(* execution_logs as the route writes it: the number of entries of the    *)
(* run's logs array in it (none in the seed, whose one entry is the       *)
(* route's), the numbers of screenshots and extracted entries, and the    *)
(* error and status fields of a run record ("" when absent)               *)
ExecutionLogs(logCount, screenshotCount, extractedCount, error, recordStatus) ==
  [logs |-> logCount, screenshots |-> screenshotCount, extractedData |-> extractedCount,
   error |-> error, status |-> recordStatus]

executionSeed == ExecutionLogs(0, 0, 0, "", "")

Row(rowStatus, executionLogs) == [status |-> rowStatus, executionLogs |-> executionLogs]

(* no job of the route is going on: the executor is modelled on its own   *)
(* and its onUpdate calls resolve without a database                      *)
NoJob ==
  /\ job = [pc |-> "none", logs |-> 0, result |-> executionSeed]
  /\ inflight = <<>>
  /\ row = Row("pending", executionSeed)

(* executeWorkflow has not been called yet *)
NotStarted ==
  /\ mainPc = "pending"
  /\ runPc = "idle"
  /\ index = 0
  /\ attempt = 0
  /\ status = "pending"
  /\ browser = "null"
  /\ pageUrl = BlankUrl
  /\ logs = <<>>
  /\ updates = <<>>
  /\ screenshots = <<>>
  /\ extractedData = <<>>
  /\ record = NoRecord
  /\ navStarted = {}
  /\ touched = {}
  /\ started = ZeroPerStep
  /\ failed = ZeroPerStep
  /\ lastError = [i \in 1..(MaxSteps + 1) |-> NoError]
  /\ deadlineAt = ""
  /\ fallbackEval = ""

(* The route's runs: its onUpdate is an async function and the model      *)
(* takes the one that resolves.                                           *)
Init ==
  /\ workflow \in Candidates
  /\ allowedDomains \in AllowLists
  /\ stepRetries \in StepRetryValues
  /\ WithinBounds(workflow, stepRetries)
  /\ maxExecutionMs \in MaxExecutionMsValues
  /\ onUpdate = "resolves"
  /\ call = NoCall
  /\ result = <<>>
  /\ NoJob
  /\ NotStarted

(* executeWorkflow called with any kind of onUpdate callback, on the runs *)
(* of at most MaxSteps step attempts                                      *)
InitCallback ==
  /\ workflow \in Candidates
  /\ allowedDomains \in AllowLists
  /\ stepRetries \in StepRetryValues
  /\ Len(PlannedWorkflow(workflow).steps) * (stepRetries + 1) <= MaxSteps
  /\ maxExecutionMs \in MaxExecutionMsValues
  /\ onUpdate \in OnUpdateKinds
  /\ call = NoCall
  /\ result = <<>>
  /\ NoJob
  /\ NotStarted

(* ------------------------------ logging ------------------------------- *)
(* A log entry: level, message and the meta fields the executor adds.     *)
LogEntry(level, message, step, att, willRetry, error) ==
  [level |-> level, message |-> message, step |-> step, attempt |-> att,
   willRetry |-> willRetry, error |-> error]

StartLog == LogEntry("info", "Starting RPA execution", 0, 0, FALSE, NoError)
ExecutingLog(i, att) == LogEntry("info", "Executing step", i, att, FALSE, NoError)
StepCompletedLog(i) == LogEntry("info", "Step completed", i, 0, FALSE, NoError)
StepFailedLog(i, att, willRetry, err) ==
  LogEntry("warn", "Step failed", i, att, willRetry, err)
RunCompletedLog == LogEntry("info", "RPA execution completed", 0, 0, FALSE, NoError)
RunFailedLog(err) == LogEntry("error", "RPA execution failed", 0, 0, FALSE, err)

(* emit(...) once per entry: pushLog appends the entry and calls          *)
(* onUpdate({status, logs}) with the status variable's current value.     *)
(* pushLog after logs.push(entry): onUpdate({status, logs}) is evaluated  *)
(* first, so a callback that throws makes pushLog throw; what it returns  *)
(* goes through Promise.resolve(...).catch(() => {}), which swallows a    *)
(* rejection.                                                             *)
pushLogThrows(kind) == kind = "throws"

(* the error a throwing onUpdate callback throws *)
CallbackError == Err("onUpdate threw", 0)

EmitAll(entries) ==
  /\ logs' = logs \o entries
  /\ updates' = updates \o [k \in 1..Len(entries) |-> status]

(* -------------------------- executeWorkflow --------------------------- *)
(* mutant of CatchRecord: the record built before status is assigned *)
CatchRecordStale(err) == [status |-> status, error |-> err]

(* the record built by the catch block *)
CatchRecord(err) == [status |-> "failed", error |-> err]

(* the record run() returns *)
RunResult == [status |-> "completed", error |-> NoError]

(* finally: browser.close() is awaited only when browser is set *)
AfterFinally(b) == IF b # "null" THEN "closing" ELSE "returned"

(* catch block, entered while the race is still awaited: `entries` are    *)
(* the log entries the same turn of the event loop emitted before it.     *)
MainCatch(err, entries) ==
  /\ status' = "failed"
  /\ logs' = logs \o entries \o <<RunFailedLog(err)>>
  /\ updates' = updates \o [k \in 1..Len(entries) |-> status] \o <<"failed">>
  /\ record' = CatchRecord(err)
  /\ mainPc' = AfterFinally(browser)

(* run() rejects: the race rejects with it if it is still undecided *)
RunRejects(err, entries) ==
  /\ runPc' = "rejected"
  /\ IF mainPc = "racing"
       THEN MainCatch(err, entries)
       ELSE EmitAll(entries) /\ UNCHANGED <<status, record, mainPc>>

(* run() reaches its end: status = 'completed', emit, return the record *)
RunResolves(entries) ==
  /\ runPc' = "done"
  /\ status' = "completed"
  /\ logs' = logs \o entries \o <<RunCompletedLog>>
  /\ updates' = updates \o [k \in 1..Len(entries) |-> status] \o <<"completed">>
  /\ IF mainPc = "racing"
       THEN record' = RunResult /\ mainPc' = AfterFinally(browser)
       ELSE UNCHANGED <<record, mainPc>>

(* mutants of IsLastAttempt: the comparison off by one, either way *)
IsLastAttemptGeq(att, retries) == att >= retries
IsLastAttemptLate(att, retries) == att > retries + 1

(* const isLastAttempt = attempt > stepRetries *)
IsLastAttempt(att, retries) == att > retries

(* while (!done && attempt <= stepRetries), evaluated with done = false *)
LoopContinues(att, retries) == att <= retries

(* mutant of NeedsFallback: the fallback snapshot never taken *)
NeedsFallbackNever(data) == FALSE

(* if (extractedData.length === 0) *)
NeedsFallback(data) == data = <<>>

(* The for loop moves on: the next step, or the code after the loop. The  *)
(* fallback snapshot is awaited only when extractedData is still empty.   *)
Advance(entries) ==
  IF index < Len(workflow.steps)
    THEN /\ index' = index + 1
         /\ attempt' = 0
         /\ runPc' = "attempt"
         /\ EmitAll(entries)
         /\ UNCHANGED <<status, record, mainPc>>
    ELSE /\ UNCHANGED <<index, attempt>>
         /\ IF NeedsFallback(extractedData)
              THEN /\ runPc' = "fallback"
                   /\ EmitAll(entries)
                   /\ UNCHANGED <<status, record, mainPc>>
              ELSE RunResolves(entries)

(* executeSingleStep threw `err` on attempt `att`: the catch of the retry *)
(* loop logs it and either rethrows or starts the backoff wait.           *)
StepThrows(err, att, entries) ==
  /\ failed' = [failed EXCEPT ![index] = @ + 1]
  /\ lastError' = [lastError EXCEPT ![index] = err]
  /\ LET last == IsLastAttempt(att, stepRetries)
         warn == StepFailedLog(index, att, ~last, err)
     IN IF last
          THEN RunRejects(err, entries \o <<warn>>)
          ELSE /\ runPc' = "backoff"
               /\ EmitAll(entries \o <<warn>>)
               /\ UNCHANGED <<status, record, mainPc>>

(* -------------------------- executeSingleStep ------------------------- *)
(* selectorLower.includes('search'); the workflow URLs of the model do    *)
(* not contain 'daraz'.                                                   *)
IsSearchClick(selector) == selector = "#search-btn"

(* mutant of PreCheck: the type branch without its domain guard *)
PreCheckTypeUnguarded(step, i, url, domains) ==
  CASE step.action = "goto" ->
         IF step.value \in {Undefined, ""}
           THEN Err("goto requires value (URL).", i)
           ELSE IF ~isUrlAllowed(step.value, domains)
             THEN Err("URL domain is not allowed.", i)
             ELSE NoError
    [] step.action \in {"click", "type", "extract"} ->
         IF step.selector \in {Undefined, ""}
           THEN Err(step.action \o " requires selector.", i)
           ELSE IF step.action # "type" /\ ~isUrlAllowed(url, domains)
             THEN Err("Current page domain is blocked.", i)
             ELSE NoError
    [] step.action = "wait" -> NoError
    [] OTHER -> Err("Unsupported action", i)

(* The checks executeSingleStep makes before its first await: the field   *)
(* the action requires, then the domain guard.  NoError when they pass.   *)
PreCheck(step, i, url, domains) ==
  CASE step.action = "goto" ->
         IF step.value \in {Undefined, ""}
           THEN Err("goto requires value (URL).", i)
           ELSE IF ~isUrlAllowed(step.value, domains)
             THEN Err("URL domain is not allowed.", i)
             ELSE NoError
    [] step.action \in {"click", "type", "extract"} ->
         IF step.selector \in {Undefined, ""}
           THEN Err(step.action \o " requires selector.", i)
           ELSE IF ~isUrlAllowed(url, domains)
             THEN Err("Current page domain is blocked.", i)
             ELSE NoError
    [] step.action = "wait" -> NoError
    [] OTHER -> Err("Unsupported action", i)

(* mutant of PostNavCheck: the guard after the navigation left out *)
PostNavCheckSkipped(i, url, domains) == NoError

(* after page.goto: the guard on page.url() *)
PostNavCheck(i, url, domains) ==
  IF ~isUrlAllowed(url, domains)
    THEN Err("Redirected to blocked domain.", i)
    ELSE NoError

(* Where a navigation may end: the target itself or, by a redirect or a   *)
(* link, a page of another host.                                          *)
Landings(target) == {target, EvilUrl}

(* a screenshot entry; url stands for the page the image file shows *)
(* mutant of Screenshot: the 0-based stepIndex stored as the step number *)
ScreenshotZeroBased(i, action, url) == [step |-> i - 1, action |-> action, url |-> url]

(* screenshots.push({step: stepIndex + 1, action, url: page.url(), ...}) *)
Screenshot(i, action, url) == [step |-> i, action |-> action, url |-> url]
Touch(i, action, url) == [step |-> i, action |-> action, url |-> url]
Extracted(i, attribute, url) == [step |-> i, attribute |-> attribute, pageUrl |-> url]

CurrentStep == workflow.steps[index]

(* ------------------------------ actions ------------------------------- *)
(* POST /api/rpa-agent: planWorkflowFromInstruction validates the         *)
(* candidate (falling back to the rule-based workflow), refuses a planned *)
(* URL outside the allow-list (the route then marks the run failed), and  *)
(* executeWorkflow runs up to its first await (the browser launch).       *)
(* Playwright is installed and onUpdate is a function.                    *)
Plan ==
  /\ mainPc = "pending"
  /\ LET wf == PlannedWorkflow(workflow)
     IN /\ workflow' = wf
        /\ IF ~isUrlAllowed(wf.url, normalizedDomains)
             THEN /\ mainPc' = "rejected"
                  /\ status' = "failed"
                  /\ UNCHANGED <<runPc, logs, updates>>
             ELSE IF pushLogThrows(onUpdate)
               THEN \* run() rejects at its first emit, and the emit of the
                    \* catch block throws out of executeWorkflow
                    /\ mainPc' = "threw"
                    /\ status' = "failed"
                    /\ runPc' = "rejected"
                    /\ logs' = <<StartLog, RunFailedLog(CallbackError)>>
                    /\ updates' = <<"running", "failed">>
               ELSE /\ mainPc' = "racing"
                    /\ status' = "running"
                    /\ runPc' = "launch"
                    /\ logs' = <<StartLog>>
                    /\ updates' = <<"running">>
  /\ UNCHANGED <<inputVars, pureVars, persistVars, historyVars, index, attempt, browser, pageUrl, screenshots,
                 extractedData, record>>

(* chromium.launch, newContext and newPage resolve *)
LaunchOk ==
  /\ runPc = "launch"
  /\ browser' = "open"
  /\ pageUrl' = BlankUrl
  /\ index' = 1
  /\ attempt' = 0
  /\ runPc' = "attempt"
  /\ UNCHANGED <<workflow, inputVars, pureVars, persistVars, historyVars, mainPc, status, logs, updates,
                 screenshots, extractedData, record>>

(* chromium.launch rejects *)
LaunchFail ==
  /\ runPc = "launch"
  /\ RunRejects(LaunchError, <<>>)
  /\ UNCHANGED <<workflow, inputVars, pureVars, persistVars, historyVars, index, attempt, browser, pageUrl,
                 screenshots, extractedData>>

(* One pass of the while loop up to the first await of executeSingleStep  *)
StartAttempt ==
  /\ runPc = "attempt"
  /\ LET att == attempt + 1
         step == CurrentStep
         pre == PreCheck(step, index, pageUrl, normalizedDomains)
         exec == <<ExecutingLog(index, att)>>
     IN /\ attempt' = att
        /\ started' = [started EXCEPT ![index] = @ + 1]
        /\ IF pre # NoError
             THEN /\ StepThrows(pre, att, exec)
                  /\ UNCHANGED <<navStarted, touched>>
             ELSE /\ runPc' = "acting"
                  /\ EmitAll(exec)
                  /\ navStarted' = IF step.action = "goto"
                                     THEN navStarted \cup {step.value}
                                     ELSE navStarted
                  /\ touched' = IF step.action \in {"click", "type", "extract"}
                                  THEN touched \cup {Touch(index, step.action, pageUrl)}
                                  ELSE touched
                  /\ UNCHANGED <<failed, lastError, status, record, mainPc>>
  /\ UNCHANGED <<workflow, inputVars, pureVars, persistVars, index, browser, pageUrl, screenshots,
                 extractedData, deadlineAt, fallbackEval>>

(* The awaited page operation of the step resolves *)
ActOk ==
  /\ runPc = "acting"
  /\ browser # "closed"
  /\ LET step == CurrentStep
     IN CASE step.action = "goto" ->
               \E u \in Landings(step.value) :
                 LET post == PostNavCheck(index, u, normalizedDomains)
                 IN /\ pageUrl' = u
                    /\ IF post # NoError
                         THEN StepThrows(post, attempt, <<>>)
                         ELSE /\ runPc' = "shot"
                              /\ UNCHANGED <<failed, lastError, logs, updates, status,
                                             record, mainPc>>
                    /\ UNCHANGED extractedData
          [] step.action = "click" ->
               \E u \in Landings(pageUrl) :
                 /\ pageUrl' = u
                 /\ runPc' = IF IsSearchClick(step.selector) THEN "autoextract" ELSE "shot"
                 /\ UNCHANGED <<failed, lastError, logs, updates, status, record, mainPc,
                                extractedData>>
          [] step.action = "extract" ->
               /\ extractedData' = Append(extractedData,
                                          Extracted(index, "textContent", pageUrl))
               /\ runPc' = "shot"
               /\ UNCHANGED <<failed, lastError, logs, updates, status, record, mainPc,
                              pageUrl>>
          [] OTHER ->
               /\ runPc' = "shot"
               /\ UNCHANGED <<failed, lastError, logs, updates, status, record, mainPc,
                              pageUrl, extractedData>>
  /\ UNCHANGED <<workflow, inputVars, pureVars, persistVars, index, attempt, browser, screenshots, navStarted,
                 touched, started, deadlineAt, fallbackEval>>

(* The awaited page operation rejects (timeout, element not found, closed *)
(* browser)                                                               *)
ActFail ==
  /\ runPc = "acting"
  /\ StepThrows(PlaywrightError, attempt, <<>>)
  /\ UNCHANGED <<workflow, inputVars, pureVars, persistVars, index, attempt, browser, pageUrl, screenshots,
                 extractedData, navStarted, touched, started, deadlineAt, fallbackEval>>

(* After a search click: the automatic extraction of the result list      *)
(* (its errors are swallowed) and the trailing waitForTimeout(1500).      *)
AutoExtract ==
  /\ runPc = "autoextract"
  /\ \E pushes \in BOOLEAN, ok \in BOOLEAN :
       /\ browser = "closed" => (~pushes /\ ~ok)
       /\ extractedData' = IF pushes
                             THEN Append(extractedData,
                                         Extracted(index, "searchResults", pageUrl))
                             ELSE extractedData
       /\ IF ok
            THEN /\ runPc' = "shot"
                 /\ UNCHANGED <<failed, lastError, logs, updates, status, record, mainPc>>
            ELSE StepThrows(PlaywrightError, attempt, <<>>)
  /\ UNCHANGED <<workflow, inputVars, pureVars, persistVars, index, attempt, browser, pageUrl, screenshots,
                 navStarted, touched, started, deadlineAt, fallbackEval>>

(* page.screenshot resolves: the step is done *)
ShotOk ==
  /\ runPc = "shot"
  /\ browser # "closed"
  /\ screenshots' = Append(screenshots, Screenshot(index, CurrentStep.action, pageUrl))
  /\ Advance(<<StepCompletedLog(index)>>)
  /\ UNCHANGED <<workflow, inputVars, pureVars, persistVars, historyVars, browser, pageUrl, extractedData>>

(* page.screenshot rejects *)
ShotFail ==
  /\ runPc = "shot"
  /\ StepThrows(PlaywrightError, attempt, <<>>)
  /\ UNCHANGED <<workflow, inputVars, pureVars, persistVars, index, attempt, browser, pageUrl, screenshots,
                 extractedData, navStarted, touched, started, deadlineAt, fallbackEval>>

(* wait(400 * attempt) resolves and the while condition is evaluated *)
Backoff ==
  /\ runPc = "backoff"
  /\ IF LoopContinues(attempt, stepRetries)
       THEN /\ runPc' = "attempt"
            /\ UNCHANGED <<index, attempt, logs, updates, status, record, mainPc>>
       ELSE Advance(<<>>)
  /\ UNCHANGED <<workflow, inputVars, pureVars, persistVars, historyVars, browser, pageUrl, screenshots,
                 extractedData>>

(* The fallback page snapshot (its errors are swallowed), then the end of *)
(* run()                                                                  *)
Fallback ==
  /\ runPc = "fallback"
  /\ \E snapshot \in BOOLEAN :
       /\ browser = "closed" => ~snapshot
       /\ extractedData' = IF snapshot
                             THEN Append(extractedData,
                                         Extracted(Len(workflow.steps), "pageSnapshot",
                                                   pageUrl))
                             ELSE extractedData
       /\ fallbackEval' = IF snapshot THEN "resolved" ELSE "rejected"
  /\ RunResolves(<<>>)
  /\ UNCHANGED <<workflow, inputVars, pureVars, persistVars, index, attempt, browser, pageUrl,
                 screenshots, navStarted, touched, started, failed, lastError, deadlineAt>>

(* The setTimeout of the race fires while the race is undecided *)
TimerFire ==
  /\ mainPc = "racing"
  /\ MainCatch(TimeoutError(maxExecutionMs), <<>>)
  /\ deadlineAt' = runPc
  /\ UNCHANGED <<workflow, inputVars, pureVars, persistVars, runPc, index, attempt, browser, pageUrl, screenshots,
                 extractedData, navStarted, touched, started, failed, lastError, fallbackEval>>

(* finally: browser.close() settles (a rejection is swallowed) and        *)
(* executeWorkflow returns                                                *)
CloseDone ==
  /\ mainPc = "closing"
  /\ browser' = "closed"
  /\ mainPc' = "returned"
  /\ UNCHANGED <<workflow, inputVars, pureVars, persistVars, historyVars, runPc, index, attempt, status, pageUrl,
                 logs, updates, screenshots, extractedData, record>>

Next ==
  \/ Plan
  \/ LaunchOk
  \/ LaunchFail
  \/ StartAttempt
  \/ ActOk
  \/ ActFail
  \/ AutoExtract
  \/ ShotOk
  \/ ShotFail
  \/ Backoff
  \/ Fallback
  \/ TimerFire
  \/ CloseDone

Spec == Init /\ [][Next]_vars

SpecCallback == InitCallback /\ [][Next]_vars

(* ========================= pure functions ============================= *)
(* The pure functions are called on their own: no workflow run is going   *)
(* on, and a call leaves the executor's variables alone.                  *)
executorVars == <<workflow, inputVars, historyVars, mainPc, runPc, index, attempt, status,
                  browser, pageUrl, logs, updates, screenshots, extractedData, record>>

ExecutorIdle ==
  /\ workflow = buildFallbackWorkflow
  /\ allowedDomains = <<>>
  /\ stepRetries = MinStepRetries
  /\ maxExecutionMs = DefaultMaxExecutionMs
  /\ onUpdate = "resolves"
  /\ NotStarted

NoRun == ExecutorIdle /\ NoJob

(* the function returns `value` *)
Returns(value) ==
  /\ result = <<>>
  /\ result' = <<value>>
  /\ UNCHANGED <<call, executorVars, persistVars>>

(* --------------------------- isUrlAllowed ----------------------------- *)
(* Host labels as typed in a URL text, and every host of 1..n labels      *)
HostLabels == {"www", "WWW", "shop", "ex", "com", "evil", "net"}

RECURSIVE Hosts(_)
Hosts(n) ==
  IF n = 0 THEN {}
  ELSE [1..n -> HostLabels] \cup Hosts(n - 1)

(* A URL text: the text new URL rejects, or an https URL of a typed host  *)
MalformedUrl == [parses |-> FALSE, host |-> <<>>]

UrlInputs == {MalformedUrl} \cup {[parses |-> TRUE, host |-> h] : h \in Hosts(MaxLabels)}

(* new URL(urlText).hostname: the typed host, lowercased by the parser *)
ParsedHostname(url) == LowerHost(url.host)

(* allow-list entries as isUrlAllowed receives them, normalized or not *)
DomainEntries == {<<"ex", "com">>, <<"evil", "net">>, <<"www", "ex", "com">>}

InitGuard ==
  /\ call \in {[fn |-> "isUrlAllowed", url |-> u, list |-> l] :
                 u \in UrlInputs, l \in SUBSET DomainEntries}
  /\ result = <<>>
  /\ NoRun

CallIsUrlAllowed ==
  /\ call.fn = "isUrlAllowed"
  /\ Returns(isUrlAllowedParsed(call.url.parses, ParsedHostname(call.url), call.list))

NextGuard == CallIsUrlAllowed

SpecGuard == InitGuard /\ [][NextGuard]_vars

(* ------------------------- selector healing --------------------------- *)
Null == "<null>"

(* Selector texts: CSS selectors, one of them with surrounding blanks, a  *)
(* blank text, a Playwright text= selector and a text cheerio rejects.    *)
InvalidSelector == "[bad"
SelectorTexts == {"#a", " #a ", ".b", "#c", "  ", "text=Go", InvalidSelector}

(* String.prototype.trim on the selector texts *)
Trim(text) ==
  CASE text = " #a " -> "#a"
    [] text = "  " -> ""
    [] OTHER -> text

normalizeSelectorForDom(selector) ==
  IF selector = "" \/ selector = Null \/ selector = Undefined
    THEN Null
    ELSE LET trimmed == Trim(selector)
         IN IF trimmed = "" THEN Null
            ELSE IF trimmed = "text=Go" THEN Null
            ELSE trimmed

(* A DOM snapshot text: whether safeCheerioLoad yields a document for it  *)
(* (a string that is not blank) and the selectors that select a node.     *)
PresentSelectors == {"#a", ".b", "#c"}

(* a snapshot safeCheerioLoad yields null for: a value that is not a      *)
(* string, a blank string, or a text cheerio.load throws on               *)
UnavailableDom(cause) == [parsable |-> FALSE, present |-> {}, cause |-> cause]

Doms ==
  {UnavailableDom(cause) : cause \in {"not a string", "blank", "load throws"}}
    \cup {[parsable |-> TRUE, present |-> m, cause |-> ""] : m \in SUBSET PresentSelectors}

(* $(normalized): the nodes selected, or an exception for a selector that *)
(* cheerio cannot parse                                                   *)
cheerioQuery(dom, normalized) ==
  IF normalized = InvalidSelector THEN "throws"
  ELSE IF normalized \in dom.present THEN "some"
  ELSE "none"

(* try { return $(normalized).length > 0 } catch { return false } *)
selectorExists(dom, selector) ==
  LET normalized == normalizeSelectorForDom(selector)
  IN IF normalized = Null THEN FALSE
     ELSE IF cheerioQuery(dom, normalized) = "throws" THEN FALSE
     ELSE cheerioQuery(dom, normalized) = "some"

Attempt(selector, matched) == [selector |-> selector, matched |-> matched]

Resolution(usedSelector, matched, healed, attempts, reason) ==
  [usedSelector |-> usedSelector, matched |-> matched, healed |-> healed,
   attempts |-> attempts, reason |-> reason]

RECURSIVE FilterBoolean(_)
FilterBoolean(items) ==
  IF items = <<>> THEN <<>>
  ELSE IF Head(items) \in {"", Null, Undefined}
    THEN FilterBoolean(Tail(items))
    ELSE <<Head(items)>> \o FilterBoolean(Tail(items))

(* entry.primary ? entry.primary : null *)
PrimaryOf(entry) == IF entry.primary \in {"", Undefined} THEN Null ELSE entry.primary

(* mutant of candidateSelectors: the fallbacks tried before the primary *)
candidateSelectorsFallbacksFirst(entry) ==
  FilterBoolean(entry.fallbacks \o <<PrimaryOf(entry)>>)

(* [primary, ...fallbacks].filter(Boolean) *)
candidateSelectors(entry) == FilterBoolean(<<PrimaryOf(entry)>> \o entry.fallbacks)

(* mutant of TryCandidates: a candidate cheerio throws on ends the loop *)
RECURSIVE TryCandidatesAbortOnInvalid(_, _, _, _)
TryCandidatesAbortOnInvalid(dom, primary, candidates, attempts) ==
  IF candidates = <<>>
    THEN Resolution(Null, FALSE, FALSE, attempts, "")
    ELSE LET candidate == Head(candidates)
             matched == selectorExists(dom, candidate)
             tried == Append(attempts, Attempt(candidate, matched))
         IN IF normalizeSelectorForDom(candidate) = InvalidSelector
              THEN Resolution(Null, FALSE, FALSE, attempts, "")
              ELSE IF matched
                THEN Resolution(candidate, TRUE, candidate # primary, tried, "")
                ELSE TryCandidatesAbortOnInvalid(dom, primary, Tail(candidates), tried)

(* the for loop of resolveSelectorEntry over the candidates left *)
RECURSIVE TryCandidates(_, _, _, _)
TryCandidates(dom, primary, candidates, attempts) ==
  IF candidates = <<>>
    THEN Resolution(Null, FALSE, FALSE, attempts, "")
    ELSE LET candidate == Head(candidates)
             matched == selectorExists(dom, candidate)
             tried == Append(attempts, Attempt(candidate, matched))
         IN IF matched
              THEN Resolution(candidate, TRUE, candidate # primary, tried, "")
              ELSE TryCandidates(dom, primary, Tail(candidates), tried)

(* mutant of resolveSelectorEntry: no early return without a document *)
resolveSelectorEntryUnguarded(entry, dom) ==
  TryCandidates(dom, PrimaryOf(entry), candidateSelectors(entry), <<>>)

resolveSelectorEntry(entry, dom) ==
  IF ~dom.parsable
    THEN Resolution(Null, FALSE, FALSE, <<>>, "DOM snapshot unavailable")
    ELSE TryCandidates(dom, PrimaryOf(entry), candidateSelectors(entry), <<>>)

Tally(perSelector, healedCount, unresolvedCount, primaryMatchedCount, total) ==
  [perSelector |-> perSelector, healedCount |-> healedCount,
   unresolvedCount |-> unresolvedCount, primaryMatchedCount |-> primaryMatchedCount,
   total |-> total]

(* mutant of countResolved: a healed entry also counted as a primary match *)
countResolvedTwice(tally, resolved) ==
  IF resolved.matched
    THEN [tally EXCEPT !.healedCount = IF resolved.healed THEN @ + 1 ELSE @,
                       !.primaryMatchedCount = @ + 1]
    ELSE [tally EXCEPT !.unresolvedCount = @ + 1]

(* the counters after one entry of the forEach of runSelectorHealing *)
countResolved(tally, resolved) ==
  IF resolved.matched
    THEN IF resolved.healed
           THEN [tally EXCEPT !.healedCount = @ + 1]
           ELSE [tally EXCEPT !.primaryMatchedCount = @ + 1]
    ELSE [tally EXCEPT !.unresolvedCount = @ + 1]

(* entries.forEach over the entries left; an entry is <<key, config>> *)
RECURSIVE forEachEntry(_, _, _)
forEachEntry(entries, dom, tally) ==
  IF entries = <<>> THEN tally
  ELSE LET exactSelector == Head(entries)[1]
           resolved == resolveSelectorEntry(Head(entries)[2], dom)
           stored == [tally EXCEPT
                        !.perSelector = [k \in DOMAIN @ \cup {exactSelector} |->
                                           IF k = exactSelector THEN resolved ELSE @[k]]]
       IN forEachEntry(Tail(entries), dom, countResolved(stored, resolved))

(* selectorMap is given as Object.entries(selectorMap || {}) yields it *)
runSelectorHealing(entries, dom) ==
  forEachEntry(entries, dom, Tally(<<>>, 0, 0, 0, Len(entries)))

(* selector entries: any primary (or none) with up to n fallbacks *)
RECURSIVE FallbackLists(_)
FallbackLists(n) ==
  IF n = 0 THEN {<<>>}
  ELSE [1..n -> SelectorTexts \cup {""}] \cup FallbackLists(n - 1)

SelectorEntries ==
  {[primary |-> p, fallbacks |-> f] :
     p \in SelectorTexts \cup {""}, f \in FallbackLists(MaxFallbacks)}

(* the selector maps: up to n keys, each with one of a few entries *)
MapKeys == <<"#old-a", "#old-b", "#old-c">>

MapConfigs ==
  {[primary |-> p, fallbacks |-> f] :
     p \in {"#a", " #a ", ""}, f \in {<<>>, <<".b">>, <<"text=Go", "#c">>}}

RECURSIVE SelectorMaps(_)
SelectorMaps(n) ==
  IF n = 0 THEN {<<>>}
  ELSE {[i \in 1..n |-> <<MapKeys[i], configs[i]>>] : configs \in [1..n -> MapConfigs]}
         \cup SelectorMaps(n - 1)

InitHealing ==
  /\ \/ call \in {[fn |-> "resolveSelectorEntry", entry |-> e, dom |-> d] :
                    e \in SelectorEntries, d \in Doms}
     \/ call \in {[fn |-> "runSelectorHealing", map |-> m, dom |-> d] :
                    m \in SelectorMaps(MaxEntries), d \in Doms}
  /\ result = <<>>
  /\ NoRun

CallResolveSelectorEntry ==
  /\ call.fn = "resolveSelectorEntry"
  /\ Returns(resolveSelectorEntry(call.entry, call.dom))

CallRunSelectorHealing ==
  /\ call.fn = "runSelectorHealing"
  /\ Returns(runSelectorHealing(call.map, call.dom))

NextHealing == CallResolveSelectorEntry \/ CallRunSelectorHealing

SpecHealing == InitHealing /\ [][NextHealing]_vars

(* ------------------------------ diffDom ------------------------------- *)
(* JavaScript values a property of the tags object can hold or yield *)
(* by kind: a number n, NaN, undefined, a function or a string *)
Js(kind, n) == [kind |-> kind, n |-> n]

(* Elements of a snapshot's body: lowercased tag name, id and class       *)
(* attribute.  An unknown tag name such as <constructor> is an element    *)
(* like any other to the HTML parser.                                     *)
TagNames == {"div", "a", "constructor"}

(* the lowercase tag names that are properties of Object.prototype *)
ObjectPrototypeKeys == {"constructor"}

Elements == [tag : TagNames, id : {"", "x"}, class : {"", "c", "c d"}]

(* String(class).split(/\s+/).filter(Boolean) *)
ClassNames(text) ==
  CASE text = "c" -> {"c"}
    [] text = "c d" -> {"c", "d"}
    [] OTHER -> {}

(* tags[tag] on the object literal {}: an own property, else a property  *)
(* inherited from Object.prototype, else undefined                        *)
ObjectGet(object, key) ==
  IF key \in DOMAIN object THEN object[key]
  ELSE IF key \in ObjectPrototypeKeys THEN Js("function", 0)
  ELSE Js("undefined", 0)

(* (value || 0) + 1: addition for a number, string concatenation for a   *)
(* function or a string                                                   *)
OrZeroPlusOne(value) ==
  CASE value.kind = "undefined" -> Js("number", 1)
    [] value.kind = "number" -> Js("number", value.n + 1)
    [] OTHER -> Js("string", 0)

(* Number(value || 0) *)
NumberOrZero(value) ==
  CASE value.kind = "undefined" -> Js("number", 0)
    [] value.kind = "number" -> value
    [] OTHER -> Js("NaN", 0)

(* a !== b on two results of Number(): NaN differs from everything *)
StrictNotEqual(a, b) == a.kind = "NaN" \/ b.kind = "NaN" \/ a # b

(* the tags object after $('body *').each over the elements left *)
RECURSIVE CountTags(_, _)
CountTags(elements, tags) ==
  IF elements = <<>> THEN tags
  ELSE LET tag == Head(elements).tag
           counted == OrZeroPlusOne(ObjectGet(tags, tag))
       IN CountTags(Tail(elements),
                    [k \in DOMAIN tags \cup {tag} |-> IF k = tag THEN counted ELSE tags[k]])

collectDomStats(body) ==
  [tags |-> CountTags(body, <<>>),
   ids |-> {body[i].id : i \in 1..Len(body)} \ {""},
   classes |-> UNION {ClassNames(body[i].class) : i \in 1..Len(body)}]

diffArray(before, after) == [added |-> after \ before, removed |-> before \ after]

diffTagCounts(beforeTags, afterTags) ==
  LET keys == DOMAIN beforeTags \cup DOMAIN afterTags
      Before(tag) == NumberOrZero(ObjectGet(beforeTags, tag))
      After(tag) == NumberOrZero(ObjectGet(afterTags, tag))
  IN {[tag |-> tag, before |-> Before(tag), after |-> After(tag),
       delta |-> IF Before(tag).kind = "number" /\ After(tag).kind = "number"
                   THEN Js("number", After(tag).n - Before(tag).n)
                   ELSE Js("NaN", 0)] :
        tag \in {t \in keys : StrictNotEqual(Before(t), After(t))}}

(* null when either snapshot cannot be loaded *)
diffDom(beforeHtml, afterHtml) ==
  IF ~beforeHtml.parsable \/ ~afterHtml.parsable
    THEN [available |-> FALSE, ids |-> diffArray({}, {}), classes |-> diffArray({}, {}),
          tags |-> {}]
    ELSE LET before == collectDomStats(beforeHtml.body)
             after == collectDomStats(afterHtml.body)
         IN [available |-> TRUE,
             ids |-> diffArray(before.ids, after.ids),
             classes |-> diffArray(before.classes, after.classes),
             tags |-> diffTagCounts(before.tags, after.tags)]

(* snapshot texts: one that cannot be loaded and the documents whose body *)
(* holds up to n elements                                                 *)
RECURSIVE Bodies(_)
Bodies(n) ==
  IF n = 0 THEN {<<>>}
  ELSE [1..n -> Elements] \cup Bodies(n - 1)

Snapshots(n) ==
  {[parsable |-> FALSE, body |-> <<>>]} \cup {[parsable |-> TRUE, body |-> b] : b \in Bodies(n)}

(* diffDom called on a snapshot and itself, or on it and a small one *)
InitDiff ==
  /\ \E before \in Snapshots(MaxElements) :
       call \in {[fn |-> "diffDom", before |-> before, after |-> after] :
                   after \in {before} \cup Snapshots(1)}
  /\ result = <<>>
  /\ NoRun

CallDiffDom ==
  /\ call.fn = "diffDom"
  /\ Returns(diffDom(call.before, call.after))

SpecDiff == InitDiff /\ [][CallDiffDom]_vars

(* ---------------------- buildHealingDiagnostics ----------------------- *)
(* Snapshot texts by what the two readers take from them: the selectors   *)
(* that match in the document and the elements of its body.               *)
DiagnosticSnapshots ==
  {[parsable |-> FALSE, present |-> {}, cause |-> "blank", body |-> <<>>],
   [parsable |-> TRUE, present |-> {}, cause |-> "", body |-> <<>>],
   [parsable |-> TRUE, present |-> {"#a", "#c"}, cause |-> "",
    body |-> <<[tag |-> "a", id |-> "x", class |-> ""]>>],
   [parsable |-> TRUE, present |-> {".b"}, cause |-> "",
    body |-> <<[tag |-> "div", id |-> "", class |-> "c"]>>],
   [parsable |-> TRUE, present |-> {".b", "#c"}, cause |-> "",
    body |-> <<[tag |-> "div", id |-> "", class |-> "c d"],
               [tag |-> "a", id |-> "x", class |-> ""]>>]}

DiagnosticMaps ==
  {<<>>,
   <<<<"login", [primary |-> "#a", fallbacks |-> <<".b">>]>>,
     <<"submit", [primary |-> "#c", fallbacks |-> <<>>]>>>>}

(* the domBefore, domAfter and domCurrent of one call *)
DiagnosticDoms == [domBefore : DiagnosticSnapshots, domAfter : DiagnosticSnapshots,
                   domCurrent : DiagnosticSnapshots]

(* mutant of buildHealingDiagnostics: selectors resolved against domAfter *)
buildHealingDiagnosticsAgainstAfter(selectorMap, domBefore, domAfter, domCurrent) ==
  LET selectorResolution == runSelectorHealing(selectorMap, domAfter)
      domDiff == diffDom(domBefore, domAfter)
  IN [summary |-> [totalSelectors |-> selectorResolution.total,
                   primaryMatched |-> selectorResolution.primaryMatchedCount,
                   healedWithFallback |-> selectorResolution.healedCount,
                   unresolved |-> selectorResolution.unresolvedCount,
                   domDiffAvailable |-> domDiff.available],
      selectorResolution |-> selectorResolution,
      domDiff |-> domDiff]

buildHealingDiagnostics(selectorMap, domBefore, domAfter, domCurrent) ==
  LET selectorResolution == runSelectorHealing(selectorMap, domCurrent)
      domDiff == diffDom(domBefore, domAfter)
  IN [summary |-> [totalSelectors |-> selectorResolution.total,
                   primaryMatched |-> selectorResolution.primaryMatchedCount,
                   healedWithFallback |-> selectorResolution.healedCount,
                   unresolved |-> selectorResolution.unresolvedCount,
                   domDiffAvailable |-> domDiff.available],
      selectorResolution |-> selectorResolution,
      domDiff |-> domDiff]

(* two calls with the same selector map whose snapshots differ only in    *)
(* domBefore and domAfter, or only in domCurrent                          *)
InitDiagnostics ==
  /\ \E m \in DiagnosticMaps, a \in DiagnosticDoms, b \in DiagnosticDoms :
       /\ \/ a.domCurrent = b.domCurrent
          \/ (a.domBefore = b.domBefore /\ a.domAfter = b.domAfter)
       /\ call = [fn |-> "buildHealingDiagnostics", selectorMap |-> m, a |-> a, b |-> b]
  /\ result = <<>>
  /\ NoRun

CallBuildHealingDiagnostics ==
  /\ call.fn = "buildHealingDiagnostics"
  /\ Returns([a |-> buildHealingDiagnostics(call.selectorMap, call.a.domBefore,
                                            call.a.domAfter, call.a.domCurrent),
              b |-> buildHealingDiagnostics(call.selectorMap, call.b.domBefore,
                                            call.b.domAfter, call.b.domCurrent)])

SpecDiagnostics == InitDiagnostics /\ [][CallBuildHealingDiagnostics]_vars

(* ------------------------ mergeAllowedDomains ------------------------- *)
(* Parts of RPA_ALLOWED_DOMAINS split at ',' and entries of the request's *)
(* allowedDomains; <<>> is the unset variable or the missing field.       *)
MaxDomains == 2
DomainTexts == {"www.ex.com", "EX.com", "evil.net", "*"}

RECURSIVE DomainLists(_)
DomainLists(n) ==
  IF n = 0 THEN {<<>>}
  ELSE [1..n -> DomainTexts] \cup DomainLists(n - 1)

(* parts.map((part) => normalizeDomain(part)).filter(Boolean) *)
RECURSIVE NormalizedParts(_)
NormalizedParts(parts) ==
  IF parts = <<>> THEN <<>>
  ELSE IF normalizeDomain(Head(parts)) = <<>>
    THEN NormalizedParts(Tail(parts))
    ELSE <<normalizeDomain(Head(parts))>> \o NormalizedParts(Tail(parts))

(* requested.filter((domain) => configured.includes(domain)) *)
RECURSIVE FilterIncluded(_, _)
FilterIncluded(requested, configured) ==
  IF requested = <<>> THEN <<>>
  ELSE IF Head(requested) \in SeqRange(configured)
    THEN <<Head(requested)>> \o FilterIncluded(Tail(requested), configured)
    ELSE FilterIncluded(Tail(requested), configured)

mergeAllowedDomains(requestDomains, envParts) ==
  LET configured == NormalizedParts(envParts)
      requested == NormalizedParts(requestDomains)
      wildcardConfigured == "*" \in SeqRange(envParts)
      wildcardRequested == "*" \in SeqRange(requestDomains)
  IN IF wildcardConfigured \/ wildcardRequested THEN <<>>
     ELSE IF configured # <<>> /\ requested # <<>>
       THEN FilterIncluded(requested, configured)
     ELSE IF configured # <<>> THEN configured
     ELSE IF requested # <<>> THEN requested
     ELSE <<>>

(* normalizeAllowedDomains of the executor on the merged list, whose      *)
(* elements are hostnames already                                         *)
effectiveDomains(merged) ==
  {StripWww(LowerHost(merged[i])) : i \in 1..Len(merged)} \ {<<>>}

InitMerge ==
  /\ call \in {[fn |-> "mergeAllowedDomains", requestDomains |-> r, envParts |-> e] :
                 r \in DomainLists(MaxDomains), e \in DomainLists(MaxDomains)}
  /\ result = <<>>
  /\ NoRun

CallMergeAllowedDomains ==
  /\ call.fn = "mergeAllowedDomains"
  /\ Returns(mergeAllowedDomains(call.requestDomains, call.envParts))

SpecMerge == InitMerge /\ [][CallMergeAllowedDomains]_vars

(* ----------------------- persistence of a job ------------------------- *)
(* The route's job around executeWorkflow.  The run is taken by what the  *)
(* route sees of it: the pushLog calls, each of which appends to the logs *)
(* array and calls the route's onUpdate without awaiting it, and the      *)
(* record it resolves with.  A database call completes at any later time: *)
(* the connection is used without serialize().                            *)
MaxUpdates == 2

(* records executeWorkflow resolves with: a completed run with one        *)
(* screenshot and one extracted entry, and a failed run with its error    *)
RunResults ==
  {ExecutionLogs(0, 1, 1, "", "completed"),
   ExecutionLogs(0, 0, 0, "Execution timed out", "failed")}

(* an onUpdate call: awaiting its SELECT (get), awaiting its UPDATE       *)
(* (update) or over (done), the status it was given and the row it       *)
(* writes, built when its SELECT completes                                *)
OnUpdateCall(pc, givenStatus, write) == [pc |-> pc, status |-> givenStatus, write |-> write]

(* the job after the row was persisted as running and executeWorkflow was *)
(* called                                                                 *)
InitPersist ==
  /\ job = [pc |-> "running", logs |-> 0, result |-> executionSeed]
  /\ inflight = <<>>
  /\ row = Row("running", executionSeed)
  /\ call = NoCall
  /\ result = <<>>
  /\ ExecutorIdle

(* pushLog during the run: status is 'running' *)
PushLog ==
  /\ job.pc = "running"
  /\ job.logs < MaxUpdates
  /\ job' = [job EXCEPT !.logs = @ + 1]
  /\ inflight' = Append(inflight, OnUpdateCall("get", "running", Row("", executionSeed)))
  /\ UNCHANGED <<row, call, result, executorVars>>

(* the last pushLog of the run, with its final status; the record is then *)
(* built and executeWorkflow goes on to its finally block                 *)
Complete ==
  /\ job.pc = "running"
  /\ \E runResult \in RunResults :
       /\ job' = [pc |-> "closing", logs |-> job.logs + 1, result |-> runResult]
       /\ inflight' = Append(inflight, OnUpdateCall("get", runResult.status, Row("", executionSeed)))
  /\ UNCHANGED <<row, call, result, executorVars>>

(* executeWorkflow resolves and the then callback issues the final UPDATE *)
(* with the record, logs included                                         *)
Return ==
  /\ job.pc = "closing"
  /\ job' = [job EXCEPT !.pc = "persisting", !.result.logs = job.logs]
  /\ UNCHANGED <<inflight, row, call, result, executorVars>>

(* the final UPDATE completes and the job settles *)
FinalWrite ==
  /\ job.pc = "persisting"
  /\ row' = Row(job.result.status, job.result)
  /\ job' = [job EXCEPT !.pc = "settled"]
  /\ UNCHANGED <<inflight, call, result, executorVars>>

(* the SELECT of an onUpdate call completes: it issues its UPDATE with    *)
(* the status it was given and {...existing, logs}, logs being the run's  *)
(* array as it is now                                                     *)
GetDone ==
  /\ \E i \in 1..Len(inflight) :
       /\ inflight[i].pc = "get"
       /\ inflight' = [inflight EXCEPT ![i] =
            OnUpdateCall("update", @.status,
                         Row(@.status, [row.executionLogs EXCEPT !.logs = job.logs]))]
  /\ UNCHANGED <<job, row, call, result, executorVars>>

(* the UPDATE of an onUpdate call completes *)
UpdateDone ==
  /\ \E i \in 1..Len(inflight) :
       /\ inflight[i].pc = "update"
       /\ row' = inflight[i].write
       /\ inflight' = [inflight EXCEPT ![i].pc = "done"]
  /\ UNCHANGED <<job, call, result, executorVars>>

NextPersist == PushLog \/ Complete \/ Return \/ FinalWrite \/ GetDone \/ UpdateDone

SpecPersist == InitPersist /\ [][NextPersist]_vars

(* ----------------------------- wait step ------------------------------ *)
(* The value of a wait step as its characters; <<>> is the missing or the *)
(* empty value, which `value || '2000'` treats alike.                     *)
MaxChars == 5
WaitChars == {"0", "2", "3", "9", "-", "x"}
DecimalDigits == {"0", "2", "3", "9"}

RECURSIVE WaitValues(_)
WaitValues(n) ==
  IF n = 0 THEN {<<>>}
  ELSE [1..n -> WaitChars] \cup WaitValues(n - 1)

DigitValue(char) ==
  CASE char = "0" -> 0 [] char = "2" -> 2 [] char = "3" -> 3 [] char = "9" -> 9

(* the longest prefix of decimal digits *)
RECURSIVE LeadingDigits(_)
LeadingDigits(chars) ==
  IF chars = <<>> \/ Head(chars) \notin DecimalDigits THEN <<>>
  ELSE <<Head(chars)>> \o LeadingDigits(Tail(chars))

RECURSIVE DecimalValue(_)
DecimalValue(digits) ==
  IF digits = <<>> THEN 0
  ELSE 10 * DecimalValue(SubSeq(digits, 1, Len(digits) - 1))
         + DigitValue(digits[Len(digits)])

(* Number.parseInt(text, 10): an optional sign and the digits that follow *)
(* it, the rest of the text ignored; NaN when no digit follows            *)
parseInt(chars) ==
  LET negative == chars # <<>> /\ Head(chars) = "-"
      digits == LeadingDigits(IF negative THEN Tail(chars) ELSE chars)
  IN IF digits = <<>> THEN Js("NaN", 0)
     ELSE Js("number", IF negative THEN 0 - DecimalValue(digits) ELSE DecimalValue(digits))

MinWaitMs == 200
MaxWaitMs == 30000
DefaultWaitMs == 2000

(* mutant of safeWaitMs: no lower limit *)
safeWaitMsNoFloor(value) ==
  LET waitMs == IF value = <<>> THEN Js("number", DefaultWaitMs) ELSE parseInt(value)
  IN IF waitMs.kind = "number"
       THEN IF waitMs.n < MaxWaitMs THEN waitMs.n ELSE MaxWaitMs
       ELSE DefaultWaitMs

(* waitMs = parseInt(String(value || '2000'), 10);                        *)
(* Number.isFinite(waitMs) ? Math.min(Math.max(waitMs, 200), 30000) : 2000 *)
safeWaitMs(value) ==
  LET waitMs == IF value = <<>> THEN Js("number", DefaultWaitMs) ELSE parseInt(value)
      atLeast == IF waitMs.n > MinWaitMs THEN waitMs.n ELSE MinWaitMs
  IN IF waitMs.kind = "number"
       THEN IF atLeast < MaxWaitMs THEN atLeast ELSE MaxWaitMs
       ELSE DefaultWaitMs

(* executeSingleStep on a wait step: the error thrown before the delay,   *)
(* if any, and the delay passed to page.waitForTimeout                    *)
executeWaitStep(value, url, domains) ==
  [error |-> PreCheck([action |-> "wait", selector |-> Undefined, value |-> value],
                      1, url, domains),
   waited |-> safeWaitMs(value)]

InitWait ==
  /\ call \in {[fn |-> "wait", value |-> v, pageUrl |-> u, domains |-> {<<"ex", "com">>}] :
                 v \in WaitValues(MaxChars), u \in {OkUrl, EvilUrl}}
  /\ result = <<>>
  /\ NoRun

CallWait ==
  /\ call.fn = "wait"
  /\ Returns(executeWaitStep(call.value, call.pageUrl, call.domains))

SpecWait == InitWait /\ [][CallWait]_vars

(* -------------------------- run snapshots ----------------------------- *)
(* An HTML text by what the route can tell of it: its content `base`      *)
(* (<<>> for a missing or blank text), whether blanks surround it,       *)
(* whether the parsed document has a body (a frameset document has none), *)
(* the data-self-healing-stage and -run-id attributes of the body, the    *)
(* nodes added inside the body and the comments appended after the        *)
(* document.  The stamped-at time is the same for all stamps of a run.    *)
HtmlText(base, pad, body, stage, inner) ==
  [base |-> base, pad |-> pad, body |-> body, stage |-> stage, run |-> <<>>,
   inner |-> inner, tail |-> <<>>]

(* typeof text === 'string' && text.trim().length > 0 *)
NonBlank(text) == text.base # <<>>

(* String(text).trim() *)
TrimText(text) == [text EXCEPT !.pad = FALSE]

(* $.html() of cheerio.load(text): blanks after the document end up in it *)
Serialized(text) ==
  IF text.pad THEN [text EXCEPT !.pad = FALSE, !.inner = Append(@, "blanks")] ELSE text

(* text + '\n<!-- comment -->' *)
WithComment(text, comment) == [text EXCEPT !.tail = Append(@, comment)]

buildFallbackDom(label) == HtmlText(<<"fallback">> \o label, FALSE, TRUE, "", <<>>)

(* mutant of stampDomSnapshot: a document with a body gets the same mark  *)
(* at every stage and only the document element is serialized             *)
stampDomSnapshotUnstaged(html, stage, runId) ==
  IF NonBlank(html) /\ html.body
    THEN [Serialized(html) EXCEPT !.stage = "snapshot", !.run = <<>>, !.tail = <<>>]
    ELSE WithComment(IF NonBlank(html) THEN TrimText(html)
                     ELSE buildFallbackDom(<<"DOM", stage>>),
                     <<"self-healing-stage", stage>> \o runId)

stampDomSnapshot(html, stage, runId) ==
  IF NonBlank(html) /\ html.body
    THEN [Serialized(html) EXCEPT !.stage = stage, !.run = runId]
    ELSE WithComment(IF NonBlank(html) THEN TrimText(html)
                     ELSE buildFallbackDom(<<"DOM", stage>>),
                     <<"self-healing-stage", stage>> \o runId)

(* The body gets a node unless it already has it; nothing is added to a  *)
(* document without body.                                                 *)
WithNode(text, node) ==
  IF text.body /\ node \notin SeqRange(text.inner)
    THEN [text EXCEPT !.inner = Append(@, node)]
    ELSE text

(* synthesizeDomAfter: selected nodes are marked (marking twice changes   *)
(* nothing) and the body's stage attribute becomes 'after'                *)
synthesizeDomAfter(domBefore) ==
  IF ~NonBlank(domBefore)
    THEN buildFallbackDom(<<"DOM after (synthetic)">>)
    ELSE LET marked == WithNode(Serialized(domBefore), "after-mark")
         IN IF marked.body THEN [marked EXCEPT !.stage = "after"] ELSE marked

(* buildDynamicDomSnapshots: the html of applyInstructionEffects has the  *)
(* after-state section, that of buildCurrentStateDom the current-state    *)
(* section as well                                                        *)
buildDynamicDomSnapshots(baseDom, runId) ==
  LET source == IF NonBlank(baseDom) THEN baseDom ELSE buildFallbackDom(<<"DOM before">>)
      afterEffects == WithNode(Serialized(source), "after-state")
      currentRaw == WithNode(afterEffects, "current-state")
  IN [before |-> stampDomSnapshot(source, "before", <<runId, "before">>),
      after |-> stampDomSnapshot(afterEffects, "after", <<runId, "after">>),
      current |-> stampDomSnapshot(currentRaw, "current", <<runId, "current">>)]

RunId == "run"

(* POST /self-healing/run from the choice of the snapshots to the         *)
(* uniqueness guards: the three snapshots handed to the diagnostics       *)
RunSnapshots(domBefore, domAfter, domCurrent, fetchedHtml) ==
  LET generated ==
        buildDynamicDomSnapshots(IF NonBlank(domBefore) THEN domBefore ELSE fetchedHtml,
                                 RunId)
      before0 == IF NonBlank(domBefore) THEN domBefore ELSE generated.before
      after0 == IF NonBlank(domAfter) THEN domAfter ELSE generated.after
      synthetic == synthesizeDomAfter(before0)
      after1 == IF TrimText(after0) # TrimText(before0) THEN after0
                ELSE IF TrimText(synthetic) # TrimText(before0) THEN synthetic
                ELSE WithComment(before0, <<"self-healing-after">>)
      current0 == IF NonBlank(domCurrent) THEN domCurrent ELSE generated.current
      before == stampDomSnapshot(before0, "before", <<RunId, "before">>)
      after2 == stampDomSnapshot(after1, "after", <<RunId, "after">>)
      current2 == stampDomSnapshot(current0, "current", <<RunId, "current">>)
      after == IF TrimText(after2) = TrimText(before)
                 THEN stampDomSnapshot(WithComment(after2, <<"force-after-diff", RunId>>),
                                       "after", <<RunId, "after-diff">>)
                 ELSE after2
      current3 == IF TrimText(current2) = TrimText(after)
                    THEN stampDomSnapshot(
                           WithComment(current2, <<"force-current-diff-after", RunId>>),
                           "current", <<RunId, "current-diff-after">>)
                    ELSE current2
      current == IF TrimText(current3) = TrimText(before)
                   THEN stampDomSnapshot(
                          WithComment(current3, <<"force-current-diff-before", RunId>>),
                          "current", <<RunId, "current-diff-before">>)
                   ELSE current3
  IN [before |-> before, after |-> after, current |-> current]

(* the texts a caller may send or the URL may serve: none, or a page with *)
(* or without body, blanks, a stage attribute or marked nodes             *)
NoText == HtmlText(<<>>, FALSE, FALSE, "", <<>>)

SuppliedTexts ==
  {NoText} \cup {HtmlText(<<"page">>, pad, body, stage, inner) :
                   pad \in BOOLEAN, body \in BOOLEAN, stage \in {"", "after"},
                   inner \in {<<>>, <<"after-mark">>}}

InitSnapshots ==
  /\ call \in [fn : {"runSnapshots"}, domBefore : SuppliedTexts, domAfter : SuppliedTexts,
                domCurrent : SuppliedTexts,
                fetchedHtml : {NoText, HtmlText(<<"page">>, FALSE, TRUE, "", <<>>)}]
  /\ result = <<>>
  /\ NoRun

CallRunSnapshots ==
  /\ call.fn = "runSnapshots"
  /\ Returns(RunSnapshots(call.domBefore, call.domAfter, call.domCurrent, call.fetchedHtml))

SpecSnapshots == InitSnapshots /\ [][CallRunSnapshots]_vars

(* ---------------------------- mapSelectors ---------------------------- *)
(* Recorded selectors ("" for an event without one) and what the two     *)
(* regular expressions of mapSelectors capture in them.                   *)
RecordedSelectors ==
  {"", "#email", "form #email", "[name=\"user\"]", "input#pw[name=\"pw\"]", "button"}

(* '#' + selector.match(/#([A-Za-z0-9\-_]+)/)[1], Null without a match *)
IdCandidate(selector) ==
  CASE selector \in {"#email", "form #email"} -> "#email"
    [] selector = "input#pw[name=\"pw\"]" -> "#pw"
    [] OTHER -> Null

(* '[name="' + selector.match(/\[name="([^"]+)"\]/)[1] + '"]' *)
NameCandidate(selector) ==
  CASE selector = "[name=\"user\"]" -> "[name=\"user\"]"
    [] selector = "input#pw[name=\"pw\"]" -> "[name=\"pw\"]"
    [] OTHER -> Null

(* Array.from(new Set(items)): the first occurrences, in order *)
RECURSIVE Unique(_)
Unique(items) ==
  IF items = <<>> THEN <<>>
  ELSE LET front == Unique(SubSeq(items, 1, Len(items) - 1))
           last == items[Len(items)]
       IN IF last \in SeqRange(front) THEN front ELSE Append(front, last)

(* the entry mapSelectors stores for a recorded selector *)
SelectorEntry(selector) ==
  LET candidates == <<selector>>
                      \o (IF IdCandidate(selector) # Null
                            THEN <<IdCandidate(selector)>> ELSE <<>>)
                      \o (IF NameCandidate(selector) # Null
                            THEN <<NameCandidate(selector)>> ELSE <<>>)
  IN [exactSelector |-> selector, primary |-> selector,
      fallbacks |-> Unique(Tail(candidates))]

(* the map as a function of its keys; an event without selector is skipped *)
mapSelectors(events) ==
  [selector \in SeqRange(events) \ {""} |-> SelectorEntry(selector)]

RECURSIVE EventLists(_)
EventLists(n) ==
  IF n = 0 THEN {<<>>}
  ELSE [1..n -> RecordedSelectors] \cup EventLists(n - 1)

InitSelectors ==
  /\ call \in {[fn |-> "mapSelectors", events |-> e] : e \in EventLists(MaxEvents)}
  /\ result = <<>>
  /\ NoRun

CallMapSelectors ==
  /\ call.fn = "mapSelectors"
  /\ Returns(mapSelectors(call.events))

SpecSelectors == InitSelectors /\ [][CallMapSelectors]_vars

(* ============================ properties ============================== *)
StepIndexes == 1..Len(workflow.steps)

(* 'Step failed' entries of step i announcing a retry *)
RetryLogs(i) ==
  Cardinality({k \in 1..Len(logs) :
                 logs[k].message = "Step failed" /\ logs[k].step = i /\ logs[k].willRetry})

FinalFailureLogs ==
  Cardinality({k \in 1..Len(logs) : logs[k].message = "Step failed" /\ ~logs[k].willRetry})

StepCompletedLogs ==
  Cardinality({k \in 1..Len(logs) : logs[k].message = "Step completed"})

DeadlineFired == deadlineAt # ""

Guarded == normalizedDomains # {}

BlockedTexts ==
  {"URL domain is not allowed.", "Redirected to blocked domain.",
   "Current page domain is blocked."}

(* C1: when executeWorkflow has returned, the deadline has not fired, the  *)
(* browser was launched and no step threw more often than stepRetries      *)
(* (each step failed its first k <= stepRetries attempts and then          *)
(* succeeded), the record's status is completed and the log holds exactly  *)
(* k 'Step failed' entries with willRetry = true for each step, and none   *)
(* with willRetry = false.                                                 *)
C1_RetryThenSucceed ==
  ( /\ mainPc = "returned"
    /\ ~DeadlineFired
    /\ browser # "null"
    /\ \A i \in StepIndexes : failed[i] <= stepRetries )
  => /\ record.status = "completed"
     /\ \A i \in StepIndexes : RetryLogs(i) = failed[i]
     /\ FinalFailureLogs = 0

(* C1 witness: with stepRetries = 1 a step failed once and the run         *)
(* returned completed with one retry entry.                                *)
C1_Witness ==
  /\ mainPc = "returned"
  /\ ~DeadlineFired
  /\ stepRetries = 1
  /\ record.status = "completed"
  /\ \E i \in StepIndexes : failed[i] = 1 /\ RetryLogs(i) = 1

(* C2 as stated: every step is attempted at most stepRetries + 1 times,    *)
(* and once a step has failed more than stepRetries times no later step is *)
(* attempted and the returned record is failed with that step's error.     *)
C2_FinalFailureInRecord ==
  \A i \in StepIndexes :
    /\ started[i] <= stepRetries + 1
    /\ failed[i] > stepRetries =>
         /\ \A j \in StepIndexes : j > i => started[j] = 0
         /\ mainPc = "returned" => record = CatchRecord(lastError[i])

(* C2 amended: as C2, but the record carries the step's error unless the   *)
(* deadline fired first, in which case it carries the timeout error.       *)
C2_FinalFailureOrTimeout ==
  \A i \in StepIndexes :
    /\ started[i] <= stepRetries + 1
    /\ failed[i] > stepRetries =>
         /\ \A j \in StepIndexes : j > i => started[j] = 0
         /\ mainPc = "returned" =>
              record = CatchRecord(IF DeadlineFired
                                     THEN TimeoutError(maxExecutionMs)
                                     ELSE lastError[i])

(* C2 witness: a step exhausted its retries before the deadline and the    *)
(* run returned failed with its error, a later step never being started.   *)
C2_Witness ==
  /\ mainPc = "returned"
  /\ ~DeadlineFired
  /\ stepRetries >= 1
  /\ Len(workflow.steps) >= 2
  /\ failed[1] = stepRetries + 1
  /\ started[2] = 0
  /\ record.error = lastError[1]

(* C3: when the deadline fired before the step loop had finished (during   *)
(* the launch or anywhere inside the loop), the returned record is failed  *)
(* with the timeout error of maxExecutionMs.                               *)
C3_DeadlineGivesTimeout ==
  ( /\ mainPc = "returned"
    /\ deadlineAt \in {"launch", "attempt", "acting", "autoextract", "shot", "backoff"} )
  => /\ record.status = "failed"
     /\ record.error = TimeoutError(maxExecutionMs)

(* C3 witness: the deadline fired during a page operation, the abandoned   *)
(* task still finished all steps, and the record returned is the timeout.  *)
C3_Witness ==
  /\ mainPc = "returned"
  /\ deadlineAt = "acting"
  /\ runPc = "done"
  /\ record.error = TimeoutError(maxExecutionMs)

(* C4 as stated: once executeWorkflow has returned, no browser session of  *)
(* the run is open.                                                        *)
C4_NoSessionLeak ==
  mainPc = "returned" => browser # "open"

(* C5 as stated: after a 'Step failed' entry whose error is a domain-guard *)
(* error, the step is not attempted again (no later 'Executing step' entry *)
(* for it), and a run that returned after one is failed.                   *)
C5_BlockedNeverRetried ==
  \A k \in 1..Len(logs) :
    (logs[k].message = "Step failed" /\ logs[k].error.text \in BlockedTexts)
    => /\ \A m \in (k + 1)..Len(logs) :
            ~(logs[m].message = "Executing step" /\ logs[m].step = logs[k].step)
       /\ mainPc = "returned" => record.status = "failed"

(* C6 as stated: no step of a workflow that holds a step lacking its       *)
(* required field is ever executed.                                        *)
C6_MalformedRejected ==
  (\E i \in StepIndexes : MissingRequiredField(workflow.steps[i]))
  => \A j \in StepIndexes : started[j] = 0

(* C7: with a non-empty allow-list, page.goto is only ever called with an  *)
(* allowed URL, every screenshot of a goto step shows an allowed page, and *)
(* every 'Step completed' entry comes with its screenshot.                 *)
C7_GotoGuarded ==
  Guarded =>
    /\ \A u \in navStarted : isUrlAllowed(u, normalizedDomains)
    /\ \A k \in 1..Len(screenshots) :
         screenshots[k].action = "goto"
           => isUrlAllowed(screenshots[k].url, normalizedDomains)
    /\ StepCompletedLogs = Len(screenshots)

(* C7 witness: under a non-empty allow-list a goto to an allowed URL was   *)
(* started and was redirected to a disallowed host.                        *)
C7_Witness ==
  /\ Guarded
  /\ navStarted # {}
  /\ \E i \in StepIndexes :
       /\ workflow.steps[i].action = "goto"
       /\ lastError[i].text = "Redirected to blocked domain."

(* the step about to be attempted is a click, type or extract with its     *)
(* selector, on a page the non-empty allow-list disallows                  *)
BlockedInteraction ==
  /\ runPc = "attempt"
  /\ CurrentStep.action \in {"click", "type", "extract"}
  /\ ~MissingRequiredField(CurrentStep)
  /\ Guarded
  /\ ~isUrlAllowed(pageUrl, normalizedDomains)

TouchedAllowed ==
  Guarded => \A t \in touched : isUrlAllowed(t.url, normalizedDomains)

(* C8: with a non-empty allow-list no element interaction of a click, type *)
(* or extract step starts on a disallowed page, and an attempt of such a   *)
(* step on a disallowed page fails at once, interacting with nothing and   *)
(* adding nothing to extractedData.                                        *)
C8_InteractionGuarded ==
  /\ []TouchedAllowed
  /\ [][(BlockedInteraction /\ started' # started)
         => /\ touched' = touched
            /\ extractedData' = extractedData
            /\ failed'[index] = failed[index] + 1
            /\ lastError'[index].text = "Current page domain is blocked."]_vars

(* C8 witness: a type step was refused on a disallowed page that an        *)
(* earlier click had navigated to.                                         *)
C8_Witness ==
  /\ Guarded
  /\ pageUrl = EvilUrl
  /\ \E i \in StepIndexes :
       /\ workflow.steps[i].action = "type"
       /\ lastError[i].text = "Current page domain is blocked."

(* C9 as stated: with a non-empty allow-list no screenshot of a click step *)
(* shows a disallowed page.                                                *)
C9_ClickLandingGuarded ==
  Guarded =>
    \A k \in 1..Len(screenshots) :
      screenshots[k].action = "click"
        => isUrlAllowed(screenshots[k].url, normalizedDomains)

(* C10 as stated: in the sequence of statuses notified, nothing but failed *)
(* follows failed and nothing but completed follows completed, and the     *)
(* status variable agrees with a returned record.                          *)
C10_TerminalStatus ==
  /\ \A j \in 1..Len(updates) : \A k \in j..Len(updates) :
       /\ updates[j] = "failed" => updates[k] = "failed"
       /\ updates[j] = "completed" => updates[k] = "completed"
  /\ mainPc = "returned" => status = record.status

(* C11 as stated: an onUpdate callback that fails, by returning a promise  *)
(* that rejects or by throwing, does not affect the run: executeWorkflow   *)
(* does not exit by an exception, and the callback's error is neither in   *)
(* the logs nor in the returned record.                                    *)
C11_CallbackFailureDiscarded ==
  onUpdate # "resolves" =>
    /\ mainPc # "threw"
    /\ record.error # CallbackError
    /\ \A k \in 1..Len(logs) : logs[k].error # CallbackError

(* the number of screenshots the position of run() implies *)
ExpectedScreenshots ==
  IF runPc \in {"fallback", "done"} THEN Len(workflow.steps)
  ELSE IF index = 0 THEN 0
  ELSE index - 1

(* C12: the screenshots are those of steps 1..k in step order, k being the *)
(* number of steps completed so far; a failed attempt adds none, and a     *)
(* completed run of n steps has exactly n screenshots.                     *)
C12_OneScreenshotPerStep ==
  /\ \A k \in 1..Len(screenshots) :
       /\ screenshots[k].step = k
       /\ screenshots[k].action = workflow.steps[k].action
  /\ Len(screenshots) = StepCompletedLogs
  /\ Len(screenshots) = ExpectedScreenshots
  /\ record.status = "completed" => Len(screenshots) = Len(workflow.steps)

(* a two-step run completed after a failed attempt of its first step *)
C12_Witness ==
  /\ record.status = "completed"
  /\ Len(screenshots) = 2
  /\ failed[1] > 0

C14_DomainGuard ==
  (call.fn = "isUrlAllowed" /\ result # <<>> /\ call.url.parses) =>
    LET lowered == [i \in 1..Len(call.url.host) |->
                      IF call.url.host[i] = "WWW" THEN "www" ELSE call.url.host[i]]
        host == IF Len(lowered) >= 2 /\ lowered[1] = "www"
                  THEN SubSeq(lowered, 2, Len(lowered))
                  ELSE lowered
    IN result[1] =
         IF call.list = {}
           THEN TRUE
           ELSE \E entry \in call.list :
                  \/ host = entry
                  \/ \E n \in 1..(Len(host) - 1) :
                       SubSeq(host, n + 1, Len(host)) = entry

(* shop.ex.com is allowed by ex.com, and ex.com.evil.net has been refused  *)
(* by it                                                                   *)
C14_Witness ==
  /\ call.fn = "isUrlAllowed"
  /\ call.url.host = <<"WWW", "shop", "ex", "com">>
  /\ call.list = {<<"ex", "com">>}
  /\ result = <<TRUE>>

(* C15 as stated: isUrlAllowed returns false for every URL text that does  *)
(* not parse, whatever the allow-list.                                     *)
C15_MalformedRefused ==
  (call.fn = "isUrlAllowed" /\ result # <<>> /\ ~call.url.parses) => result[1] = FALSE

(* C16: resolveSelectorEntry uses the first of [primary, ...fallbacks]     *)
(* that matches the snapshot: the primary, not healed, if it matches;      *)
(* else the first matching fallback in declared order, healed; and healed  *)
(* always says that a selector other than the primary was used.            *)
C16_FirstMatchWins ==
  (call.fn = "resolveSelectorEntry" /\ result # <<>>) =>
    LET r == result[1]
        primary == call.entry.primary
        fallbacks == call.entry.fallbacks
        Matches(selector) == call.dom.parsable /\ selectorExists(call.dom, selector)
        matching == {i \in 1..Len(fallbacks) : Matches(fallbacks[i])}
    IN /\ Matches(primary) => (r.matched /\ ~r.healed /\ r.usedSelector = primary)
       /\ (~Matches(primary) /\ matching # {}) =>
            /\ r.matched /\ r.healed
            /\ \E i \in matching : /\ r.usedSelector = fallbacks[i]
                                   /\ \A j \in matching : i <= j
       /\ (~Matches(primary) /\ matching = {}) => (~r.matched /\ r.usedSelector = Null)
       /\ r.healed = (r.matched /\ r.usedSelector # primary)

(* the primary and the first fallback do not match, the second does *)
C16_Witness ==
  /\ call.fn = "resolveSelectorEntry"
  /\ call.entry = [primary |-> "#a", fallbacks |-> <<"text=Go", ".b">>]
  /\ call.dom.present = {".b"}
  /\ result # <<>>
  /\ result[1].healed
  /\ result[1].usedSelector = ".b"

(* C17: total is the number of entries of the map and the sum of the three *)
(* counts, each entry being counted once, by what its resolution says.     *)
C17_CountsAddUp ==
  (call.fn = "runSelectorHealing" /\ result # <<>>) =>
    LET r == result[1]
        keys == {call.map[i][1] : i \in 1..Len(call.map)}
    IN /\ r.total = Len(call.map)
       /\ r.total = r.primaryMatchedCount + r.healedCount + r.unresolvedCount
       /\ DOMAIN r.perSelector = keys
       /\ r.primaryMatchedCount =
            Cardinality({k \in keys : r.perSelector[k].matched /\ ~r.perSelector[k].healed})
       /\ r.healedCount =
            Cardinality({k \in keys : r.perSelector[k].matched /\ r.perSelector[k].healed})
       /\ r.unresolvedCount = Cardinality({k \in keys : ~r.perSelector[k].matched})

(* a map of two entries, one healed and one matched by its primary *)
C17_Witness ==
  /\ call.fn = "runSelectorHealing"
  /\ result # <<>>
  /\ result[1].total = 2
  /\ result[1].healedCount = 1
  /\ result[1].primaryMatchedCount = 1

(* C18 as stated: the diff of a parsable snapshot with itself has no added *)
(* or removed id, no added or removed class and no tag-count change.       *)
C18_SelfDiffEmpty ==
  (call.fn = "diffDom" /\ result # <<>> /\ call.before = call.after
     /\ call.before.parsable) =>
    /\ result[1].available
    /\ result[1].ids = [added |-> {}, removed |-> {}]
    /\ result[1].classes = [added |-> {}, removed |-> {}]
    /\ result[1].tags = {}

(* C20 as stated: every entry mapSelectors builds has the recorded         *)
(* selector as primary, and fallbacks without duplicates that do not       *)
(* contain the primary.                                                    *)
C20_FallbacksExcludePrimary ==
  (call.fn = "mapSelectors" /\ result # <<>>) =>
    \A key \in DOMAIN result[1] :
      LET entry == result[1][key]
      IN /\ entry.primary = key
         /\ key \in SeqRange(call.events)
         /\ \A i, j \in 1..Len(entry.fallbacks) :
              entry.fallbacks[i] = entry.fallbacks[j] => i = j
         /\ \A i \in 1..Len(entry.fallbacks) : entry.fallbacks[i] # entry.primary

(* C19: whatever domBefore, domAfter and domCurrent the caller supplies,   *)
(* the before, after and current snapshots of the run are pairwise         *)
(* distinct texts.                                                         *)
C19_SnapshotsDistinct ==
  (call.fn = "runSnapshots" /\ result # <<>>) =>
    /\ result[1].before # result[1].after
    /\ result[1].after # result[1].current
    /\ result[1].before # result[1].current

(* the caller supplied the same text three times, and the run has stamped  *)
(* its snapshots                                                           *)
C19_Witness ==
  /\ call.fn = "runSnapshots"
  /\ NonBlank(call.domBefore)
  /\ call.domBefore = call.domAfter
  /\ call.domAfter = call.domCurrent
  /\ result # <<>>
  /\ result[1].before.stage = "before"

(* C21 as stated: a candidate starting with 'text=' is filtered out before *)
(* resolution: it is not among the attempts and is never the selector used *)
C21_TextCandidatesFiltered ==
  (call.fn = "resolveSelectorEntry" /\ result # <<>>) =>
    /\ result[1].usedSelector # "text=Go"
    /\ \A k \in 1..Len(result[1].attempts) : result[1].attempts[k].selector # "text=Go"

(* C22: a candidate whose query throws is recorded as not matched and the  *)
(* candidates after it are still tried in order: the first candidate that  *)
(* matches is the one used, and if none matches all have been attempted.   *)
C22_InvalidCandidateSkipped ==
  (call.fn = "resolveSelectorEntry" /\ result # <<>> /\ call.dom.parsable) =>
    LET r == result[1]
        tried == candidateSelectors(call.entry)
        invalid == {i \in 1..Len(tried) : cheerioQuery(call.dom, tried[i]) = "throws"}
        matching == {i \in 1..Len(tried) : selectorExists(call.dom, tried[i])}
    IN invalid # {} =>
         /\ r.usedSelector # InvalidSelector
         /\ \A i \in invalid :
              i <= Len(r.attempts) => r.attempts[i] = Attempt(InvalidSelector, FALSE)
         /\ matching = {} => (~r.matched /\ Len(r.attempts) = Len(tried))
         /\ matching # {} =>
              /\ r.matched
              /\ \E i \in matching : /\ r.usedSelector = tried[i]
                                     /\ Len(r.attempts) = i
                                     /\ \A j \in matching : i <= j

(* the primary throws when queried and the fallback after it is used *)
C22_Witness ==
  /\ call.fn = "resolveSelectorEntry"
  /\ call.entry = [primary |-> InvalidSelector, fallbacks |-> <<".b">>]
  /\ call.dom.present = {".b"}
  /\ result # <<>>
  /\ result[1].usedSelector = ".b"
  /\ result[1].healed

(* C23: without a document (the snapshot is not a string, is blank or      *)
(* fails to load) resolveSelectorEntry returns the one unresolved result   *)
(* with no attempts and the 'DOM snapshot unavailable' reason, and         *)
(* runSelectorHealing counts every entry of the map as unresolved.         *)
C23_UnavailableSnapshot ==
  (result # <<>> /\ ~call.dom.parsable) =>
    LET unavailable == [usedSelector |-> Null, matched |-> FALSE, healed |-> FALSE,
                        attempts |-> <<>>, reason |-> "DOM snapshot unavailable"]
    IN /\ call.fn = "resolveSelectorEntry" => result[1] = unavailable
       /\ call.fn = "runSelectorHealing" =>
            /\ result[1].unresolvedCount = Len(call.map)
            /\ result[1].total = Len(call.map)
            /\ result[1].healedCount = 0
            /\ result[1].primaryMatchedCount = 0
            /\ \A k \in DOMAIN result[1].perSelector :
                 result[1].perSelector[k] = unavailable

(* a map of two entries resolved against a blank snapshot *)
C23_Witness ==
  /\ call.fn = "runSelectorHealing"
  /\ call.dom = UnavailableDom("blank")
  /\ Len(call.map) = 2
  /\ result # <<>>
  /\ result[1].unresolvedCount = 2

(* C28 as stated: once executeWorkflow has returned, the execution task    *)
(* starts no further step attempt, appends nothing to the logs, the        *)
(* screenshots or the extracted data, and notifies no further status.      *)
C28_NothingAfterReturn ==
  [][mainPc = "returned" =>
       /\ started' = started
       /\ logs' = logs
       /\ screenshots' = screenshots
       /\ extractedData' = extractedData
       /\ updates' = updates]_vars

(* C29 as stated: with a non-empty allow-list every extractedData entry,   *)
(* from an extract step, from the extraction that follows a search click   *)
(* or from the fallback snapshot, was read from an allowed page.           *)
C29_ExtractedFromAllowedPage ==
  Guarded =>
    \A k \in 1..Len(extractedData) :
      isUrlAllowed(extractedData[k].pageUrl, normalizedDomains)

(* C30 as stated: a step index appears at most once in screenshots and an  *)
(* extract step contributes at most one extractedData entry, retries       *)
(* included.                                                               *)
C30_EffectsRecordedOnce ==
  /\ \A j, k \in 1..Len(screenshots) :
       screenshots[j].step = screenshots[k].step => j = k
  /\ \A j, k \in 1..Len(extractedData) :
       (/\ extractedData[j].attribute = "textContent"
        /\ extractedData[k].attribute = "textContent"
        /\ extractedData[j].step = extractedData[k].step) => j = k

(* C24: the selector resolution and the summary counts of the diagnostics  *)
(* depend on domCurrent only, and domDiff on domBefore and domAfter only:  *)
(* two calls with the same domCurrent agree on the former, two calls with  *)
(* the same domBefore and domAfter agree on the latter, and there is no    *)
(* diff when domBefore or domAfter cannot be loaded.                       *)
C24_DiagnosticsInputsSeparated ==
  (call.fn = "buildHealingDiagnostics" /\ result # <<>>) =>
    LET a == result[1].a
        b == result[1].b
    IN /\ call.a.domCurrent = call.b.domCurrent =>
            /\ a.selectorResolution = b.selectorResolution
            /\ a.summary.totalSelectors = b.summary.totalSelectors
            /\ a.summary.primaryMatched = b.summary.primaryMatched
            /\ a.summary.healedWithFallback = b.summary.healedWithFallback
            /\ a.summary.unresolved = b.summary.unresolved
       /\ (call.a.domBefore = call.b.domBefore /\ call.a.domAfter = call.b.domAfter) =>
            /\ a.domDiff = b.domDiff
            /\ a.summary.domDiffAvailable = b.summary.domDiffAvailable
       /\ (~call.a.domBefore.parsable \/ ~call.a.domAfter.parsable) =>
            /\ ~a.domDiff.available
            /\ ~a.summary.domDiffAvailable

(* two calls on the same domCurrent whose page changes differ: the diffs   *)
(* differ, one selector is healed in both                                  *)
C24_Witness ==
  /\ call.fn = "buildHealingDiagnostics"
  /\ call.a.domCurrent = call.b.domCurrent
  /\ call.a.domAfter # call.b.domAfter
  /\ result # <<>>
  /\ result[1].a.domDiff # result[1].b.domDiff
  /\ result[1].a.summary.healedWithFallback = 1
  /\ result[1].b.summary.healedWithFallback = 1

(* C25: a wait step throws no error, whatever the current page and the     *)
(* allow-list, and its delay is within [200, 30000] ms whatever its value  *)
(* holds; a value that reads as a number within the limits is the delay.   *)
C25_WaitClamped ==
  (call.fn = "wait" /\ result # <<>>) =>
    /\ result[1].error = NoError
    /\ result[1].waited >= MinWaitMs
    /\ result[1].waited <= MaxWaitMs
    /\ LET waitMs == parseInt(call.value)
       IN (waitMs.kind = "number" /\ waitMs.n >= MinWaitMs /\ waitMs.n <= MaxWaitMs)
            => result[1].waited = waitMs.n

(* a negative value on a page outside the allow-list waits 200 ms *)
C25_Witness ==
  /\ call.fn = "wait"
  /\ call.value = <<"-", "9">>
  /\ call.pageUrl = EvilUrl
  /\ ~isUrlAllowed(call.pageUrl, call.domains)
  /\ result # <<>>
  /\ result[1].waited = MinWaitMs
  /\ result[1].error = NoError

(* C26 as stated: with a configured list that is not empty and no '*' in   *)
(* either list, every URL the executor accepts under the merged list is    *)
(* accepted under the configured list.                                     *)
C26_ConfiguredListBinds ==
  (/\ call.fn = "mergeAllowedDomains"
   /\ result # <<>>
   /\ call.envParts # <<>>
   /\ "*" \notin SeqRange(call.envParts) \cup SeqRange(call.requestDomains)) =>
    \A urlText \in {OkUrl, EvilUrl, DefaultUrl} :
      isUrlAllowed(urlText, effectiveDomains(result[1]))
        => isUrlAllowed(urlText, normalizeAllowedDomains(call.envParts))

(* C27 as stated: once the job has settled, the row holds the final        *)
(* record of the run and its status, whatever onUpdate calls are still     *)
(* under way.                                                              *)
C27_SettledRowIsFinal ==
  job.pc = "settled" => row = Row(job.result.status, job.result)
====
